---- MODULE Spec2Model ----
(***************************************************************************)
(* A model of the Potion core client (PotionBase in src/core/potion.ts)   *)
(* together with the Store.destroy verb that evicts from its cache.       *)
(*                                                                         *)
(* Strings that the code inspects (URIs, object keys) are sequences of    *)
(* one-character strings, so indexOf / substring / split are computed as  *)
(* the code computes them.  Promises are records with a settled state;    *)
(* every continuation the code registers is one action of the model.      *)
(***************************************************************************)
EXTENDS Integers, Sequences, FiniteSets, TLC

VARIABLES
    prefix,              \* PotionBase.prefix (set by the constructor)
    cache,               \* PotionBase.cache: local URI -> instance id
    items,               \* the heap of Item instances, by instance id
    pendingGETRequests,  \* PotionBase.pendingGETRequests: URI -> request id
    reqs,                \* the transport request() calls made so far
    cursors,             \* the Pagination instances, by instance id
    queries              \* request id -> what a Store.query sent with it

vars == <<prefix, cache, items, pendingGETRequests, reqs, cursors, queries>>
paging == <<cursors, queries>>

(***************************************************************************)
(* Bounds of the model.                                                    *)
(***************************************************************************)
MaxReqs == 3
MaxItems == 3
MaxUriLen == 4
MaxQueries == 2
MaxWireLen == 6

(***************************************************************************)
(* String helpers: the JavaScript string primitives the code uses.        *)
(***************************************************************************)
StartsAt(s, sub, i) ==
    /\ i + Len(sub) - 1 <= Len(s)
    /\ \A j \in 1..Len(sub) : s[i + j - 1] = sub[j]

\* String.prototype.indexOf, 0-based, -1 when absent.
IndexOf(s, sub) ==
    LET hits == {i \in 1..(Len(s) + 1) : StartsAt(s, sub, i)}
    IN  IF hits = {} THEN -1
        ELSE (CHOOSE i \in hits : \A j \in hits : i <= j) - 1

\* String.prototype.substring(from), 0-based.
Substring(s, from) == SubSeq(s, from + 1, Len(s))

\* The first element of s.split('/').
RECURSIVE FirstSegment(_)
FirstSegment(s) ==
    IF s = <<>> \/ Head(s) = "/" THEN <<>>
    ELSE <<Head(s)>> \o FirstSegment(Tail(s))

Digits == {"0", "1", "2", "3", "4", "5", "6", "7", "8", "9"}
DigitValue(c) == CHOOSE n \in 0..9 : <<"0","1","2","3","4","5","6","7","8","9">>[n + 1] = c

RECURSIVE ParseInt(_, _)
ParseInt(s, acc) ==
    IF s = <<>> THEN acc ELSE ParseInt(Tail(s), acc * 10 + DigitValue(Head(s)))

\* decodeURIComponent: %2F is the one escape the modelled URIs use; any
\* other % sequence is malformed and makes the call throw a URIError.
RECURSIVE DecodeURIComponent(_)
DecodeURIComponent(s) ==
    IF s = <<>> THEN [ok |-> TRUE, uri |-> <<>>]
    ELSE IF Head(s) = "%"
         THEN IF Len(s) >= 3 /\ s[2] = "2" /\ s[3] = "F"
              THEN LET rest == DecodeURIComponent(SubSeq(s, 4, Len(s)))
                   IN  [ok |-> rest.ok, uri |-> <<"/">> \o rest.uri]
              ELSE [ok |-> FALSE, uri |-> <<>>]
         ELSE LET rest == DecodeURIComponent(Tail(s))
              IN  [ok |-> rest.ok, uri |-> <<Head(s)>> \o rest.uri]

(***************************************************************************)
(* Configuration: the resources registered with the client, the host and  *)
(* the API prefixes a client may be constructed with.                     *)
(***************************************************************************)
Resources == {<<"/", "w">>}
Host == <<>>
Prefixes == {<<>>, <<"/", "a">>}

W1 == <<"/", "w", "/", "1">>
W2 == <<"/", "w", "/", "2">>
Z1 == <<"/", "z", "/", "1">>

\* Lines 230-232: strip the API prefix when the URI starts with it.
StripPrefix(uri) ==
    IF IndexOf(uri, prefix) = 0 THEN Substring(uri, Len(prefix)) ELSE uri

\* (LookupContaining: a lookup that accepts the resource URI anywhere.)
LookupContaining(decoded, u) ==
    LET match == {r \in Resources : IndexOf(u, r \o <<"/">>) # -1}
        r == CHOOSE r \in match : TRUE
    IN  IF ~decoded \/ match = {}
        THEN [ok |-> FALSE, uri |-> u, resource |-> <<>>, id |-> <<>>,
              err |-> [k |-> "Error", text |-> "unknown potion resource", uri |-> u]]
        ELSE [ok |-> TRUE, uri |-> u, resource |-> r, id |-> <<"1">>,
              err |-> [k |-> "Error", text |-> "", uri |-> <<>>]]

\* Lines 234-245: the registered resource whose URI, followed by '/', starts
\* u; ok = FALSE stands for the Error thrown, and err for what it says.
Lookup(decoded, u) ==
    LET match == {r \in Resources : IndexOf(u, r \o <<"/">>) = 0}
        r == CHOOSE r \in match : TRUE
    IN  IF ~decoded
        THEN [ok |-> FALSE, uri |-> u, resource |-> <<>>, id |-> <<>>,
              err |-> [k |-> "Error", text |-> "URI malformed", uri |-> <<>>]]
        ELSE IF match = {}
        THEN [ok |-> FALSE, uri |-> u, resource |-> <<>>, id |-> <<>>,
              err |-> [k |-> "Error", text |-> "unknown potion resource", uri |-> u]]
        ELSE [ok |-> TRUE, uri |-> u, resource |-> r,
              id |-> FirstSegment(Substring(u, Len(r) + 1)),
              err |-> [k |-> "Error", text |-> "", uri |-> <<>>]]

LookupDecoded(dec) == Lookup(dec.ok, StripPrefix(dec.uri))

\* PotionBase.parseURI.
parseURI(uri) == LookupDecoded(DecodeURIComponent(uri))

(***************************************************************************)
(* Object keys and the naming codec.                                       *)
(***************************************************************************)
KeyUri == <<"$", "u", "r", "i">>
KeyRef == <<"$", "r", "e", "f">>
KeyDate == <<"$", "d", "a", "t", "e">>
KeySchema == <<"$", "s", "c", "h", "e", "m", "a">>
KeyId == <<"$", "i", "d">>
KeySelf == <<"m", "e">>
KeyPeer == <<"p", "_", "r">>
KeyName == <<"n">>

Lower == <<"a", "b", "c", "d", "e", "f", "g", "h", "i", "j", "k", "l", "m",
           "n", "o", "p", "q", "r", "s", "t", "u", "v", "w", "x", "y", "z">>
Upper == <<"A", "B", "C", "D", "E", "F", "G", "H", "I", "J", "K", "L", "M",
           "N", "O", "P", "Q", "R", "S", "T", "U", "V", "W", "X", "Y", "Z">>
IsLower(c) == \E i \in 1..Len(Lower) : Lower[i] = c
ToUpper(c) == Upper[CHOOSE i \in 1..Len(Lower) : Lower[i] = c]

\* utils.toCamelCase: an underscore followed by a lower-case letter becomes
\* that letter in upper case.
RECURSIVE toCamelCase(_)
toCamelCase(s) ==
    IF s = <<>> THEN <<>>
    ELSE IF Head(s) = "_" /\ Len(s) >= 2 /\ IsLower(s[2])
         THEN <<ToUpper(s[2])>> \o toCamelCase(SubSeq(s, 3, Len(s)))
         ELSE <<Head(s)>> \o toCamelCase(Tail(s))

(***************************************************************************)
(* JSON values.  A wire object keeps its keys in insertion order (the     *)
(* code iterates over them); a decoded object is a map from key to value. *)
(***************************************************************************)
Null == [k |-> "null"]
Undefined == [k |-> "undefined"]
Num(n) == [k |-> "num", n |-> n]
Str(s) == [k |-> "str", s |-> s]
Arr(elems) == [k |-> "arr", elems |-> elems]
WObj(props) == [k |-> "wobj", props |-> props]
Obj(map) == [k |-> "obj", map |-> map]
DateOf(ms) == [k |-> "date", ms |-> ms]
ItemRef(i) == [k |-> "item", id |-> i]
P(key, val) == [key |-> key, val |-> val]

EmptyMap == [x \in {} |-> Null]

\* json[key] of a wire object (the last occurrence wins, as in JSON.parse).
Get(json, key) ==
    LET at == {i \in 1..Len(json.props) : json.props[i].key = key}
    IN  IF json.k # "wobj" \/ at = {} THEN Undefined
        ELSE json.props[CHOOSE i \in at : \A j \in at : j <= i].val

IsString(v) == v.k = "str"

\* Object.assign(target, source) on maps.
Assign(target, source) ==
    [key \in DOMAIN target \cup DOMAIN source |->
        IF key \in DOMAIN source THEN source[key] ELSE target[key]]

(***************************************************************************)
(* Errors and promises.                                                    *)
(***************************************************************************)
ErrorOf(text, uri) == [k |-> "Error", text |-> text, uri |-> uri]
StringErr(text, uri) == [k |-> "string", text |-> text, uri |-> uri]
OtherErr == [k |-> "object", text |-> "", uri |-> <<>>]

Pending == [st |-> "pending"]
Resolved(v) == [st |-> "resolved", v |-> v]
Rejected(e) == [st |-> "rejected", e |-> e]
NoPromise == [st |-> "none"]
Settled(p) == p.st \in {"resolved", "rejected"}

\* The rejection handler of a de-duplicated GET (fetch, lines 168-179).
Normalize(err, uri) ==
    IF err.k = "Error" THEN StringErr(err.text, err.uri)
    ELSE IF err.k = "string" THEN err
    ELSE StringErr("could not retrieve", uri)

(***************************************************************************)
(* PotionBase.fetch, as far as it runs synchronously.  st holds the       *)
(* cache, the instances, the Pending Request Table and the requests; the  *)
(* result is the new st and the promise handed to the caller:             *)
(*   val    an already resolved promise (the cached item),                *)
(*   inner  the promise of the fetch() closure of request r,              *)
(*   outer  inner.then(cleanup, normalize) of request r.                  *)
(***************************************************************************)
\* Lines 110-114: add the API prefix if not present.
NormalizeURI(uri) == IF IndexOf(uri, prefix) = -1 THEN prefix \o uri ELSE uri

\* A request() call: what it was called with, what the transport did with
\* it (t, payload, err), the decode of its response (nodes) and the promise
\* outer that fetch (or Store.destroy) chained onto it.  missed and joined
\* record, for the properties, whether the fetch asked for a cached item
\* while the cache held its resource, and whether a later fetch was handed
\* the request's promise.
NewRequest(uri, method, search, kind, target, missed) ==
    [uri |-> uri, url |-> Host \o uri, method |-> method, search |-> search,
     missed |-> missed,
     kind |-> kind, target |-> target, t |-> "inflight", payload |-> Null,
     nodes |-> EmptyMap, err |-> Null,
     outer |-> IF kind = "plain" THEN NoPromise ELSE Pending,
     joined |-> FALSE]

\* Line 107: the key the cache is asked for (line 149).
\* (CacheKeyPrefixed: asking the cache for the normalized URI.)
CacheKeyPrefixed(uri) == NormalizeURI(uri)
CacheKey(uri) == uri

\* Lines 157-159: a GET to the same URI is already in flight.
\* (InFlightNever: a fetch that never looks at the table.)
InFlightNever(st, uri) == FALSE
InFlight(st, uri) == uri \in DOMAIN st.pend

\* Lines 143-182, with key the URI as given, uri the normalized one and
\* id the number of the request() call this fetch makes if it makes one.
fetchWith(st, key, uri, id, method, cacheOpt, search, kind, target, missed) ==
    IF method = "GET" /\ ~search
    THEN IF cacheOpt /\ key \in DOMAIN st.cache
         THEN [st |-> st, h |-> [b |-> "val", v |-> ItemRef(st.cache[key])]]
         ELSE IF InFlight(st, uri)
         THEN [st |-> [st EXCEPT !.reqs[st.pend[uri]].joined = TRUE],
               h |-> [b |-> "inner", r |-> st.pend[uri]]]
         ELSE [st |-> [st EXCEPT
                        !.reqs = Append(@, NewRequest(uri, method, search, "dedup", target, missed)),
                        !.pend = (uri :> id) @@ @],
               h |-> [b |-> "outer", r |-> id]]
    ELSE [st |-> [st EXCEPT
                   !.reqs = Append(@, NewRequest(uri, method, search, kind, target, missed))],
          h |-> [b |-> IF kind = "plain" THEN "inner" ELSE "outer", r |-> id]]

Cached(st, p) == p.ok /\ p.uri \in DOMAIN st.cache

fetchSync(st, uriArg, method, cacheOpt, search, kind, target) ==
    fetchWith(st, CacheKey(uriArg), NormalizeURI(uriArg), Len(st.reqs) + 1,
              method, cacheOpt, search, kind, target,
              cacheOpt /\ Cached(st, parseURI(uriArg)))

(***************************************************************************)
(* PotionBase.fromPotionJSON.  The call itself walks the whole wire value *)
(* synchronously (Walk): it parses URIs, puts placeholders into the cache *)
(* and issues the reference fetches.  What it leaves behind, per node of  *)
(* the wire value (a node is named by its path of child positions):       *)
(*   rej   parseURI threw: the node's promise is rejected,                *)
(*   wait  a $uri object whose merge continuation has not run,            *)
(*   done  a $uri object merged into instance v,                          *)
(*   val / inner / outer   a $ref node: the promise fetch returned.       *)
(***************************************************************************)
Kind(json) ==
    IF json.k = "arr" THEN "array"
    ELSE IF json.k # "wobj" THEN "scalar"
    ELSE IF IsString(Get(json, KeyUri)) THEN "uri"
    ELSE IF IsString(Get(json, KeySchema)) THEN "schema"
    ELSE IF Len(json.props) = 1 /\ IsString(Get(json, KeyRef))
         THEN IF Get(json, KeyRef).s = <<"#">> THEN "selfref" ELSE "ref"
    ELSE IF Len(json.props) = 1 /\ Get(json, KeyDate) # Undefined THEN "date"
    ELSE "plain"

\* Lines 300-302: cache a placeholder if the resource is not cached.
PutPlaceholder(acc, p) ==
    IF p.uri \in DOMAIN acc.cache THEN acc
    ELSE [acc EXCEPT
            !.items = Append(@, [cls |-> p.resource, props |-> EmptyMap]),
            !.cache = (p.uri :> (Len(acc.items) + 1)) @@ @]

\* The property decodes an object decode starts, in key order (the $uri
\* key of a resource object is not decoded), and the element decodes of an
\* array: the wire value and its path.
PropNodes(json, path, skipUri) ==
    LET all == [i \in 1..Len(json.props) |->
                  [key |-> json.props[i].key, json |-> json.props[i].val,
                   path |-> path \o <<i>>]]
        Wanted(n) == ~(skipUri /\ n.key = KeyUri)
    IN  SelectSeq(all, Wanted)

ElemNodes(json, path) ==
    [i \in 1..Len(json.elems) |->
        [key |-> <<>>, json |-> json.elems[i], path |-> path \o <<i>>]]

WithNode(acc, path, node) == [acc EXCEPT !.nodes = (path :> node) @@ @]

\* Lines 283-315: a resource object whose $uri parsed to p.
VisitUri(json, path, acc, p) ==
    IF ~p.ok
    THEN [acc |-> WithNode(acc, path, [b |-> "rej", e |-> p.err]), kids |-> <<>>]
    ELSE [acc |-> WithNode(PutPlaceholder(acc, p), path,
                           [b |-> "wait", uri |-> p.uri,
                            resource |-> p.resource, id |-> p.id]),
          kids |-> PropNodes(json, path, TRUE)]

\* Lines 359-362: the cached GET of a reference, f being what fetch did.
Fetched(path, acc, f) ==
    [acc |-> [cache |-> f.st.cache, items |-> f.st.items, pend |-> f.st.pend,
              reqs |-> f.st.reqs, nodes |-> (path :> f.h) @@ acc.nodes],
     kids |-> <<>>]

\* Lines 342-362: a reference stub whose $ref parsed to p.
VisitRef(path, acc, p) ==
    IF ~p.ok
    THEN [acc |-> WithNode(acc, path, [b |-> "rej", e |-> p.err]), kids |-> <<>>]
    ELSE Fetched(path, acc,
                 fetchSync([cache |-> acc.cache, items |-> acc.items,
                            pend |-> acc.pend, reqs |-> acc.reqs],
                           p.uri, "GET", TRUE, FALSE, "dedup", <<>>))

\* One call of fromPotionJSON, up to the recursive calls it makes (kids).
VisitKind(kind, json, path, acc) ==
    CASE kind = "array" -> [acc |-> acc, kids |-> ElemNodes(json, path)]
      [] kind = "uri" -> VisitUri(json, path, acc, parseURI(Get(json, KeyUri).s))
      [] kind = "ref" -> VisitRef(path, acc, parseURI(Get(json, KeyRef).s))
      [] kind = "plain" -> [acc |-> acc, kids |-> PropNodes(json, path, FALSE)]
      [] OTHER -> [acc |-> acc, kids |-> <<>>]

Visit(json, path, acc) == VisitKind(Kind(json), json, path, acc)

\* The synchronous part of fromPotionJSON(json): every call runs its
\* recursive calls before it returns, so the calls happen in document order.
RECURSIVE WalkAll(_, _)
WalkNext(v, rest) == WalkAll(v.kids \o rest, v.acc)
WalkAll(todo, acc) ==
    IF todo = <<>> THEN acc
    ELSE WalkNext(Visit(Head(todo).json, Head(todo).path, acc), Tail(todo))

Walk(json, path, acc) == WalkAll(<<[key |-> <<>>, json |-> json, path |-> path]>>, acc)

(***************************************************************************)
(* The promises of an object decode.  The code keeps one promise per      *)
(* camel-cased key (promises.set(k, ...)), so of the wire keys that map   *)
(* to one camel-cased key only the last is awaited by Promise.all.        *)
(***************************************************************************)
Children(json, skipUri) ==
    {i \in 1..Len(json.props) : ~(skipUri /\ json.props[i].key = KeyUri)}

Awaited(json, skipUri) ==
    {i \in Children(json, skipUri) :
        \A j \in Children(json, skipUri) :
            toCamelCase(json.props[j].key) = toCamelCase(json.props[i].key) => j <= i}

\* utils.deepOmap(json, null, toCamelCase): keys renamed, values kept.
RECURSIVE DeepCamel(_)
DeepCamel(json) ==
    IF json.k = "arr"
    THEN Arr([i \in 1..Len(json.elems) |-> DeepCamel(json.elems[i])])
    ELSE IF json.k = "wobj"
    THEN Obj([key \in {toCamelCase(json.props[i].key) : i \in 1..Len(json.props)} |->
                DeepCamel(json.props[
                    CHOOSE i \in Awaited(json, FALSE) :
                        toCamelCase(json.props[i].key) = key].val)])
    ELSE json

\* Promise.all over the promises ps (a function from positions): rejected
\* as soon as one is rejected, resolved once all are resolved.
PromiseAll(ps) ==
    IF \E i \in DOMAIN ps : ps[i].st = "rejected"
    THEN Rejected(ps[CHOOSE i \in DOMAIN ps :
                       /\ ps[i].st = "rejected"
                       /\ \A j \in DOMAIN ps : ps[j].st = "rejected" => i <= j].e)
    ELSE IF \A i \in DOMAIN ps : ps[i].st = "resolved" THEN Resolved(TRUE)
    ELSE Pending

\* The value Promise.all resolves with for an array (line 276): the values
\* of the element decodes, by position.
\* (GatherByLast: the values taken back to front.)
GatherByLast(es) == Arr([i \in 1..Len(es) |-> es[Len(es) + 1 - i].v])
Gather(es) == Arr([i \in 1..Len(es) |-> es[i].v])

\* The state of the promise that fromPotionJSON returned for the node at
\* path; rq are the requests, whose promises the $ref nodes wait for.
\* InnerOf is the promise of the fetch() closure of request r (lines
\* 124-141, without pagination): pending while the transport is, rejected
\* with the transport's error, else settled as the decode of the response
\* is.  seen are the requests whose promise is being computed: a promise
\* that waits for itself stays pending.
RECURSIVE Status(_, _, _, _, _), InnerOf(_, _, _)
ChildStatus(json, path, nodes, rq, seen) ==
    [i \in Awaited(json, Kind(json) = "uri") |->
        Status(json.props[i].val, path \o <<i>>, nodes, rq, seen)]

InnerOf(r, rq, seen) ==
    IF rq[r].t = "inflight" \/ r \in seen THEN Pending
    ELSE IF rq[r].t = "failed" THEN Rejected(rq[r].err)
    ELSE Status(rq[r].payload, <<>>, rq[r].nodes, rq, seen \cup {r})

\* properties, once Promise.all is resolved: camel-cased key -> value.
Properties(json, path, nodes, rq, seen) ==
    LET cs == ChildStatus(json, path, nodes, rq, seen)
    IN  [key \in {toCamelCase(json.props[i].key) : i \in DOMAIN cs} |->
            cs[CHOOSE i \in DOMAIN cs : toCamelCase(json.props[i].key) = key].v]

Status(json, path, nodes, rq, seen) ==
    LET kind == Kind(json)
    IN  CASE kind = "scalar" -> Resolved(json)
          [] kind = "array" ->
                LET es == [i \in 1..Len(json.elems) |->
                             Status(json.elems[i], path \o <<i>>, nodes, rq, seen)]
                    all == PromiseAll(es)
                IN  IF all.st = "resolved" THEN Resolved(Gather(es)) ELSE all
          [] kind = "uri" ->
                LET n == nodes[path]
                IN  IF n.b = "rej" THEN Rejected(n.e)
                    ELSE IF n.b = "done" THEN Resolved(n.v)
                    ELSE LET all == PromiseAll(ChildStatus(json, path, nodes, rq, seen))
                         IN  IF all.st = "rejected" THEN all ELSE Pending
          [] kind = "schema" -> Resolved(DeepCamel(json))
          [] kind = "selfref" -> Resolved(Get(json, KeyRef))
          [] kind = "ref" ->
                LET n == nodes[path]
                IN  IF n.b = "rej" THEN Rejected(n.e)
                    ELSE IF n.b = "val" THEN Resolved(n.v)
                    ELSE IF n.b = "inner" THEN InnerOf(n.r, rq, seen)
                    ELSE rq[n.r].outer
          [] kind = "date" -> Resolved(DateOf(Get(json, KeyDate)))
          [] OTHER ->
                LET all == PromiseAll(ChildStatus(json, path, nodes, rq, seen))
                IN  IF all.st = "resolved"
                    THEN Resolved(Obj(Properties(json, path, nodes, rq, seen)))
                    ELSE all

\* The wire value at a path.
RECURSIVE At(_, _)
At(json, path) ==
    IF path = <<>> THEN json
    ELSE IF json.k = "arr" THEN At(json.elems[Head(path)], Tail(path))
    ELSE At(json.props[Head(path)].val, Tail(path))

\* Line 319: the id, an integer when the first URI parameter is all digits.
IdValue(id) ==
    IF id # <<>> /\ \A i \in 1..Len(id) : id[i] \in Digits
    THEN Num(ParseInt(id, 0)) ELSE Str(id)

(***************************************************************************)
(* The environment: what callers ask for and what the server answers.     *)
(***************************************************************************)
\* The URIs the application fetches: a resource, given without and with
\* the API prefix, and a URI that no registered resource matches.
FetchArgs == {W1, prefix \o W1, Z1}

Ref(uri) == WObj(<<P(KeyRef, Str(uri))>>)

\* The representations the server may send for a GET of uri.
Responses(uri) ==
    IF uri = prefix \o W1
    THEN {WObj(<<P(KeyUri, Str(prefix \o W1)), P(KeyName, Num(1))>>),
          WObj(<<P(KeyUri, Str(prefix \o W1)), P(KeySelf, Ref(prefix \o W1)),
                 P(KeyPeer, Ref(prefix \o W2))>>),
          WObj(<<P(KeyUri, Str(prefix \o W1)),
                 P(KeyPeer, Arr(<<WObj(<<P(KeyUri, Str(W1)), P(KeySelf, Ref(<<"#">>))>>)>>))>>),
          WObj(<<P(KeyPeer, Ref(Z1)), P(toCamelCase(KeyPeer), Num(1))>>)}
    ELSE IF uri = prefix \o W2
    THEN {WObj(<<P(KeyUri, Str(prefix \o W2)), P(KeySelf, Ref(W1)),
                 P(KeyName, WObj(<<P(KeyDate, Num(0))>>))>>)}
    ELSE {Num(5),
          WObj(<<P(KeyName, Arr(<<WObj(<<P(KeyUri, Str(uri))>>)>>))>>)}

TransportErrors == {ErrorOf("boom", <<>>), StringErr("down", <<>>), OtherErr}

Init ==
    /\ prefix \in Prefixes
    /\ cache = EmptyMap
    /\ items = <<>>
    /\ pendingGETRequests = EmptyMap
    /\ reqs = <<>>
    /\ cursors = <<>>
    /\ queries = EmptyMap

State == [cache |-> cache, items |-> items, pend |-> pendingGETRequests, reqs |-> reqs]

\* The de-duplicable GETs for uri whose caller-facing promise is unsettled.
Unsettled(uri) ==
    {r \in 1..Len(reqs) :
        reqs[r].kind = "dedup" /\ reqs[r].uri = uri /\ reqs[r].outer = Pending}

\* fetch(arg, {method: 'GET', cache: cacheOpt}) called by the application.
Called(f) ==
    /\ Len(f.st.reqs) <= MaxReqs
    /\ reqs' = f.st.reqs
    /\ pendingGETRequests' = f.st.pend
    /\ UNCHANGED <<prefix, cache, items>>

Fetch(arg, cacheOpt) ==
    Called(fetchSync(State, arg, "GET", cacheOpt, FALSE, "dedup", <<>>))

\* Store.destroy(item): fetch(item.uri, {method: 'DELETE'}).then(evict),
\* for an item that a fetch has handed to the application.
Destroy(i) ==
    /\ \E r \in 1..Len(reqs) : reqs[r].outer = Resolved(ItemRef(i))
    /\ KeyUri \in DOMAIN items[i].props
    /\ Called(fetchSync(State, items[i].props[KeyUri].s, "DELETE", FALSE, FALSE,
                        "destroy", items[i].props[KeyUri].s))

\* The transport resolves request r with a response whose data is payload;
\* deserialize calls fromPotionJSON, which walks the payload.
Deserialized(r, payload, w) ==
    /\ Len(w.reqs) <= MaxReqs
    /\ Len(w.items) <= MaxItems
    /\ cache' = w.cache
    /\ items' = w.items
    /\ pendingGETRequests' = w.pend
    /\ reqs' = [w.reqs EXCEPT ![r].t = "responded", ![r].payload = payload,
                              ![r].nodes = w.nodes]
    /\ UNCHANGED <<prefix>>

TransportResolve(r, payload) ==
    /\ reqs[r].t = "inflight"
    /\ Deserialized(r, payload,
                    Walk(payload, <<>>,
                         [cache |-> cache, items |-> items, pend |-> pendingGETRequests,
                          reqs |-> reqs, nodes |-> EmptyMap]))

\* The transport rejects request r.
TransportReject(r, err) ==
    /\ reqs[r].t = "inflight"
    /\ reqs' = [reqs EXCEPT ![r].t = "failed", ![r].err = err]
    /\ UNCHANGED <<prefix, cache, items, pendingGETRequests>>

\* How often uri has been evicted from the cache so far (history, kept
\* with a finished decode to tell what happened in between two of them).
Evictions(uri) ==
    Cardinality({r \in 1..Len(reqs) :
        reqs[r].kind = "destroy" /\ reqs[r].target = uri
        /\ reqs[r].outer.st = "resolved"})

\* Lines 323-332: the instance the merge continuation writes to: the cached
\* one, or 0 when a new one has to be constructed.
\* (MergeTargetFresh: a merge that always constructs.)
MergeTargetFresh(uri) == 0
MergeTarget(uri) == IF uri \in DOMAIN cache THEN cache[uri] ELSE 0

\* Line 327: Object.assign(item, mapToObject(properties)).
\* (MergeIntoReplacing: a merge that drops what the payload lacks.)
MergeIntoReplacing(old, properties) == properties
MergeInto(old, properties) == Assign(old, properties)

\* Lines 307 and 319-320, and mapToObject(properties) once the property
\* decodes are resolved: what the decode at path of r's response merges.
DecodedProperties(r, path) ==
    Assign((KeyUri :> Str(reqs[r].nodes[path].uri))
              @@ (KeyId :> IdValue(reqs[r].nodes[path].id)),
           Properties(At(reqs[r].payload, path), path, reqs[r].nodes, reqs, {r}))

\* The continuation of Promise.all in the decode of the $uri object at path
\* of request r's response (lines 321-335).
Merge(r, path) ==
    /\ reqs[r].t = "responded"
    /\ path \in DOMAIN reqs[r].nodes
    /\ reqs[r].nodes[path].b = "wait"
    /\ LET n == reqs[r].nodes[path]
           json == At(reqs[r].payload, path)
           all == PromiseAll(ChildStatus(json, path, reqs[r].nodes, reqs, {r}))
           properties == DecodedProperties(r, path)
           target == MergeTarget(n.uri)
           item == IF target = 0 THEN Len(items) + 1 ELSE target
       IN  /\ all.st = "resolved"
           /\ item <= MaxItems
           /\ items' = IF target = 0
                       THEN Append(items, [cls |-> n.resource, props |-> properties])
                       ELSE [items EXCEPT ![item].props = MergeInto(@, properties)]
           /\ cache' = IF target = 0 THEN (n.uri :> item) @@ cache ELSE cache
           /\ reqs' = [reqs EXCEPT ![r].nodes[path] =
                          [b |-> "done", v |-> ItemRef(item), gen |-> Evictions(n.uri)]]
    /\ UNCHANGED <<prefix, pendingGETRequests>>

\* pendingGETRequests.delete(uri), in the fulfilment handler (line 166) and
\* in the rejection handler (line 172).
\* (DeleteNothing: a removal that removes nothing.)
DeleteNothing(map, key) == map
Delete(map, key) == [u \in DOMAIN map \ {key} |-> map[u]]
OnFulfilled(pend, uri) == Delete(pend, uri)
\* (OnRejectedKeeping: a rejection handler without the delete.)
OnRejectedKeeping(pend, uri) == pend
OnRejected(pend, uri) == Delete(pend, uri)

\* What the caller that started a de-duplicated GET gets (lines 165-179).
\* (OutcomeChecked: a fetch that resolves its URI first.)
OutcomeChecked(inner, uri) ==
    IF ~parseURI(uri).ok THEN Rejected(StringErr("unknown potion resource", uri))
    ELSE IF inner.st = "resolved" THEN inner
    ELSE Rejected(Normalize(inner.e, uri))
Outcome(inner, uri) ==
    IF inner.st = "resolved" THEN inner
    ELSE Rejected(Normalize(inner.e, uri))

\* The handlers that fetch chained onto the request of a de-duplicated GET.
SettleOuter(r) ==
    /\ reqs[r].kind = "dedup"
    /\ reqs[r].outer = Pending
    /\ LET inner == InnerOf(r, reqs, {})
       IN  /\ Settled(inner)
           /\ pendingGETRequests' =
                 IF inner.st = "resolved"
                 THEN OnFulfilled(pendingGETRequests, reqs[r].uri)
                 ELSE OnRejected(pendingGETRequests, reqs[r].uri)
           /\ reqs' = [reqs EXCEPT ![r].outer = Outcome(inner, reqs[r].uri)]
    /\ UNCHANGED <<prefix, cache, items>>

\* The continuation of Store.destroy: evict the item once the DELETE went
\* through; a failed DELETE passes its rejection on.
AfterDestroy(r) ==
    /\ reqs[r].kind = "destroy"
    /\ reqs[r].outer = Pending
    /\ LET inner == InnerOf(r, reqs, {})
           ok == inner.st = "resolved"
           uri == reqs[r].target
       IN  /\ Settled(inner)
           /\ cache' = IF ok THEN Delete(cache, uri) ELSE cache
           /\ reqs' = [reqs EXCEPT ![r].outer = IF ok THEN Resolved(Undefined) ELSE inner]
    /\ UNCHANGED <<prefix, items, pendingGETRequests>>

Next ==
    \/ /\ \E arg \in FetchArgs, cacheOpt \in BOOLEAN : Fetch(arg, cacheOpt)
       /\ UNCHANGED paging
    \/ /\ \E i \in 1..Len(items) : Destroy(i)
       /\ UNCHANGED paging
    \/ /\ \E r \in 1..Len(reqs) :
             \E payload \in (IF reqs[r].method = "DELETE" THEN {Null}
                             ELSE Responses(reqs[r].uri)) :
                TransportResolve(r, payload)
       /\ UNCHANGED paging
    \/ /\ \E r \in 1..Len(reqs) :
             \E err \in (IF reqs[r].method = "DELETE" THEN {OtherErr}
                         ELSE TransportErrors) :
                TransportReject(r, err)
       /\ UNCHANGED paging
    \/ /\ \E r \in 1..Len(reqs) : \E path \in DOMAIN reqs[r].nodes : Merge(r, path)
       /\ UNCHANGED paging
    \/ /\ \E r \in 1..Len(reqs) : SettleOuter(r)
       /\ UNCHANGED paging
    \/ /\ \E r \in 1..Len(reqs) : AfterDestroy(r)
       /\ UNCHANGED paging

Spec == Init /\ [][Next]_vars

(***************************************************************************)
(* Properties.                                                             *)
(***************************************************************************)
Dedup == {r \in 1..Len(reqs) : reqs[r].kind = "dedup"}
Inner(r) == InnerOf(r, reqs, {})

\* fetch(arg, {method: 'GET', cache: cacheOpt}) joins the unsettled GET.
Joins(f, arg) ==
    /\ f.h.b = "inner"
    /\ f.h.r \in Unsettled(NormalizeURI(arg))
    /\ Len(f.st.reqs) = Len(reqs)

\* C1: while a GET without search for a URI is unsettled, there is one
\* request() call for that URI, and every further such GET of the same
\* normalized URI that is not answered from the cache is handed that call's
\* promise and makes no request() call of its own.
C1_GetDedup ==
    /\ \A q1, q2 \in Dedup :
          (q1 # q2 /\ reqs[q1].uri = reqs[q2].uri)
             => ~(reqs[q1].outer = Pending /\ reqs[q2].outer = Pending)
    /\ \A arg \in FetchArgs :
          Unsettled(NormalizeURI(arg)) # {}
             => Joins(fetchSync(State, arg, "GET", FALSE, FALSE, "dedup", <<>>), arg)

\* A GET was handed the promise of a request that is still unsettled.
C1_Witness ==
    \E r \in Dedup : reqs[r].joined /\ reqs[r].outer = Pending /\ reqs[r].t = "inflight"

\* fetch(arg, {method: 'GET'}) makes a request() call of its own.
Starts(f) == f.h.b = "outer" /\ Len(f.st.reqs) = Len(reqs) + 1

\* C2: the Pending Request Table holds a URI only while the de-duplicable
\* GET that put it there is unsettled, and it holds it as long as that GET
\* is unsettled; once the GET has settled, resolved or rejected, a further
\* GET without search of that URI makes a fresh request() call.
C2_PendingCleanup ==
    /\ \A uri \in DOMAIN pendingGETRequests :
          /\ pendingGETRequests[uri] \in Dedup
          /\ reqs[pendingGETRequests[uri]].uri = uri
          /\ reqs[pendingGETRequests[uri]].outer = Pending
    /\ \A r \in Dedup :
          reqs[r].outer = Pending
             => reqs[r].uri \in DOMAIN pendingGETRequests
                /\ pendingGETRequests[reqs[r].uri] = r
    /\ \A arg \in FetchArgs :
          Unsettled(NormalizeURI(arg)) = {}
             => Starts(fetchSync(State, arg, "GET", FALSE, FALSE, "dedup", <<>>))

\* After a rejected and after a resolved GET of one URI, a third request()
\* call was made for it.
C2_Witness ==
    \E q1, q2, q3 \in Dedup :
        /\ q1 < q3 /\ q2 < q3 /\ q1 # q2
        /\ reqs[q1].uri = reqs[q3].uri /\ reqs[q2].uri = reqs[q3].uri
        /\ reqs[q1].outer.st = "rejected"
        /\ reqs[q2].outer.st = "resolved"

\* fetch answers from the cache and makes no request() call.
Hit(f, p) ==
    /\ f.h = [b |-> "val", v |-> ItemRef(cache[p.uri])]
    /\ f.st.reqs = reqs

\* C3: whenever the Identity Cache holds the resource of a URI, a GET with
\* the cache option and without search resolves with the cached instance
\* and makes no request() call, whether the URI is given with or without
\* the API prefix.
C3_CacheShortCircuit ==
    /\ \A r \in 1..Len(reqs) : ~reqs[r].missed
    /\ \A arg \in FetchArgs :
          Cached(State, parseURI(arg))
             => Hit(fetchSync(State, arg, "GET", TRUE, FALSE, "dedup", <<>>),
                    parseURI(arg))

\* The decodes of resource objects and reference stubs: request and path.
Nodes == UNION {{<<r, path>> : path \in DOMAIN reqs[r].nodes} : r \in 1..Len(reqs)}
NodeOf(x) == reqs[x[1]].nodes[x[2]]
WireOf(x) == At(reqs[x[1]].payload, x[2])
Finished == {x \in Nodes : NodeOf(x).b = "done"}

\* The resource that the $uri or $ref at a node names.
TargetOf(json) ==
    IF Kind(json) = "uri" THEN parseURI(Get(json, KeyUri).s)
    ELSE parseURI(Get(json, KeyRef).s)
LocalUri(x) == TargetOf(WireOf(x)).uri

\* C4: two finished decodes of wire objects whose $uri resolves to the same
\* local URI returned the same Item instance, unless the URI's cache entry
\* was removed between the two returns.
C4_IdentityStability ==
    \A x, y \in Finished :
        (LocalUri(x) = LocalUri(y) /\ NodeOf(x).gen = NodeOf(y).gen)
           => NodeOf(x).v = NodeOf(y).v

\* The decodes of two responses returned the same instance for one URI.
C4_Witness ==
    \E x, y \in Finished :
        /\ x[1] # y[1]
        /\ LocalUri(x) = LocalUri(y)
        /\ NodeOf(x).gen = NodeOf(y).gen
        /\ NodeOf(x).v = NodeOf(y).v

\* The decode at path of r's response runs its merge in this step.
Merged(r, path) ==
    /\ reqs[r].nodes[path].b = "wait"
    /\ reqs'[r].nodes[path].b = "done"

\* The merge at <<r, path>> wrote the decoded properties to the instance
\* that the cache held for its URI.
Upserted(r, path, uri) ==
    /\ reqs'[r].nodes[path].v = ItemRef(cache[uri])
    /\ \A key \in DOMAIN DecodedProperties(r, path) :
          /\ key \in DOMAIN items'[cache[uri]].props
          /\ items'[cache[uri]].props[key] = DecodedProperties(r, path)[key]

C5_Step ==
    /\ \A uri \in DOMAIN cache \cap DOMAIN cache' : cache'[uri] = cache[uri]
    /\ \A i \in 1..Len(items) :
          /\ i <= Len(items')
          /\ \A key \in DOMAIN items[i].props :
                /\ key \in DOMAIN items'[i].props
                /\ items'[i].props[key] # items[i].props[key]
                      => \E x \in Nodes :
                            /\ Merged(x[1], x[2])
                            /\ reqs'[x[1]].nodes[x[2]].v = ItemRef(i)
                            /\ key \in DOMAIN DecodedProperties(x[1], x[2])
    /\ \A x \in Nodes :
          (Merged(x[1], x[2]) /\ NodeOf(x).uri \in DOMAIN cache)
             => Upserted(x[1], x[2], NodeOf(x).uri)

\* C5: no step binds a URI that the Identity Cache maps to an instance to
\* another instance; a decode of a resource the cache holds returns the
\* cached instance with the decoded properties assigned onto it, and every
\* property of an instance that the payload merged in the step does not
\* carry keeps its value.
C5_UpsertKeepsIdentity == [][C5_Step]_vars

\* An instance carries a property of one payload of its resource and a
\* property that only another payload of that resource has.
C5_Witness ==
    \E i \in 1..Len(items) :
        /\ KeyUri \in DOMAIN items[i].props
        /\ items[i].props[KeyUri] = Str(W1)
        /\ {KeyName, toCamelCase(KeyPeer)} \subseteq DOMAIN items[i].props

\* path q lies strictly below path p.
Below(q, p) == Len(q) > Len(p) /\ SubSeq(q, 1, Len(p)) = p

\* The nested value at y is the instance of the enclosing decode at x and
\* took no request() call.
BackReference(x, y) ==
    /\ NodeOf(y).b \in {"wait", "done", "val"}
    /\ (NodeOf(x).b = "done" /\ NodeOf(y).b # "wait") => NodeOf(y).v = NodeOf(x).v

\* C6: in the decode of a $uri object, a $uri object or $ref stub below it
\* that names the same resource takes no request() call, and its value is
\* the instance that the enclosing decode returns.
C6_CycleSafety ==
    \A x, y \in Nodes :
        (/\ x[1] = y[1]
         /\ Below(y[2], x[2])
         /\ NodeOf(x).b \in {"wait", "done"}
         /\ TargetOf(WireOf(y)).ok
         /\ LocalUri(y) = LocalUri(x))
           => BackReference(x, y)

\* C7: when a $uri or $ref inside a response names no registered resource,
\* the decode of that value is rejected without a request() call and the
\* promise of the fetch that received the response is rejected.
C7_UnknownRefRejects ==
    \A x \in Nodes : NodeOf(x).b = "rej" => Inner(x[1]).st = "rejected"

\* The GETs of a URI that no registered resource matches.
Unknown == {r \in Dedup : ~parseURI(reqs[r].uri).ok}

\* C8 (as stated): a fetch of a URI that matches no registered resource is
\* rejected, whatever the transport returns.
C8_UnknownFetchRejects ==
    \A r \in Unknown : Settled(reqs[r].outer) => reqs[r].outer.st = "rejected"

\* The promise fetch returned for r is settled as the request and the
\* decode of its response are.
FollowsTransport(r, inner) ==
    /\ reqs[r].outer.st = "resolved" <=> inner.st = "resolved"
    /\ reqs[r].outer.st = "resolved" => reqs[r].outer.v = inner.v
    /\ reqs[r].outer.st = "rejected" =>
          /\ reqs[r].t = "failed" \/ \E path \in DOMAIN reqs[r].nodes :
                                        reqs[r].nodes[path].b # "done"
          /\ reqs[r].outer.e.k = "string"

\* C8 (amended): fetch does not resolve its uri argument; a GET of a URI
\* that matches no registered resource makes a request() call like any
\* other, resolves with the decoded data when the response decodes, and
\* rejects only when the transport fails or the decode rejects.
C8_UnknownFetchFollowsTransport ==
    /\ \A r \in Unknown : Settled(reqs[r].outer) => FollowsTransport(r, Inner(r))
    /\ \A arg \in FetchArgs, cacheOpt \in BOOLEAN :
          (~parseURI(arg).ok /\ Unsettled(NormalizeURI(arg)) = {})
             => Starts(fetchSync(State, arg, "GET", cacheOpt, FALSE, "dedup", <<>>))

\* A fetch of an unknown URI resolved with what the transport returned.
C8_Witness ==
    \E r \in Unknown : reqs[r].outer = Resolved(Num(5))

\* Every caller of the failed GET r sees the normalized reason: the one
\* that started it through outer, one that joined it through the request's
\* own promise.
SeesNormalized(r, inner) ==
    /\ Settled(reqs[r].outer) => reqs[r].outer = Rejected(Normalize(inner.e, reqs[r].uri))
    /\ reqs[r].joined => inner.e = Normalize(inner.e, reqs[r].uri)

\* C9: when a GET without search fails, each caller's promise is rejected
\* with the message of the failure if it is an Error, with the failure
\* itself if it is a string, and else with the generic message that names
\* the URI.
C9_FailureNormalized ==
    \A r \in Dedup : Inner(r).st = "rejected" => SeesNormalized(r, Inner(r))

\* C10: a caller that joined an in-flight GET sees the outcome that the
\* caller that started it sees: the same value, or the same rejection
\* reason.
C10_SharedOutcome ==
    \A r \in Dedup :
        (reqs[r].joined /\ Settled(reqs[r].outer)) => Inner(r) = reqs[r].outer

\* The promise that the caller of the request() call r holds: the one fetch
\* chained its handlers onto for a de-duplicated GET, the one Store.destroy
\* chained its eviction onto, else the promise of the fetch() closure.
CallerPromise(r) == IF reqs[r].outer = NoPromise THEN Inner(r) ELSE reqs[r].outer

\* C11: when the transport fails a fetch that is no de-duplicable GET
\* (another method, or a GET with search), the caller's promise is rejected
\* with the normalized message: the Error's message, else the string, else
\* the generic message that names the URI.
C11_EveryFailureNormalized ==
    \A r \in 1..Len(reqs) :
        (reqs[r].kind # "dedup" /\ reqs[r].t = "failed" /\ Settled(CallerPromise(r)))
           => CallerPromise(r) = Rejected(Normalize(reqs[r].err, reqs[r].uri))

\* Store.destroy's promise for the DELETE r settles in this step.
DestroySettles(r) ==
    /\ reqs[r].kind = "destroy"
    /\ reqs[r].outer = Pending
    /\ reqs'[r].outer # Pending

\* A GET of uri with the cache option is not answered from the cache.
NotFromCache(f) == f.h.b # "val"

\* fetch(uri, {method: 'GET', cache: true}) called after the step.
CachedGetAfter(uri) ==
    fetchSync([cache |-> cache', items |-> items', pend |-> pendingGETRequests',
               reqs |-> reqs'],
              uri, "GET", TRUE, FALSE, "dedup", <<>>)
StartsAfter(f) == f.h.b = "outer" /\ Len(f.st.reqs) = Len(reqs') + 1

\* What the settling of Store.destroy's promise does to the cache, without
\* the GET that follows.
EvictsOnSuccessOnly(r) ==
    /\ reqs'[r].outer.st = "resolved" <=> reqs[r].t = "responded"
    /\ reqs'[r].outer.st = "resolved" => reqs[r].target \notin DOMAIN cache'
    /\ reqs'[r].outer.st = "rejected" => cache' = cache

\* C13 (as stated): when Store.destroy(item) resolves, the cache has no
\* entry for item.uri and a cached GET of item.uri made then makes a
\* request() call; when the DELETE fails, destroy rejects and the cache is
\* unchanged.
C13_DestroyThenGetCallsTransport ==
    [][\A r \in 1..Len(reqs) :
          DestroySettles(r) =>
             /\ EvictsOnSuccessOnly(r)
             /\ reqs'[r].outer.st = "resolved" =>
                   StartsAfter(CachedGetAfter(reqs[r].target))]_vars

\* C13 (amended): when Store.destroy(item) resolves, the cache has no entry
\* for item.uri and a cached GET of item.uri made then is not answered from
\* the cache (it makes a request() call, or joins the GET of that URI that
\* is in flight); when the DELETE fails, destroy rejects and the cache is
\* unchanged.
C13_DestroyEvictsOnSuccessOnly ==
    [][\A r \in 1..Len(reqs) :
          DestroySettles(r) =>
             /\ EvictsOnSuccessOnly(r)
             /\ reqs'[r].outer.st = "resolved" =>
                   NotFromCache(CachedGetAfter(reqs[r].target))]_vars

\* A Store.destroy resolved and one rejected, and the cache holds no entry
\* for the destroyed item's URI.
C13_Witness ==
    \E r, q \in 1..Len(reqs) :
        /\ reqs[r].kind = "destroy" /\ reqs[r].outer.st = "resolved"
        /\ reqs[q].kind = "destroy" /\ reqs[q].outer.st = "rejected"
        /\ reqs[r].target \notin DOMAIN cache

\* The object decodes that have property decodes: the $uri objects whose
\* URI parsed, and the responses that are plain objects.
Objects ==
    {x \in Nodes : Kind(WireOf(x)) = "uri" /\ NodeOf(x).b \in {"wait", "done"}}
    \cup {<<r, <<>>>> : r \in {q \in 1..Len(reqs) :
                                 reqs[q].t = "responded" /\ Kind(reqs[q].payload) = "plain"}}

\* The promise of the object decode x and of its property decodes, the
\* latter by position in the wire object (none is left out).
StatusAt(x) == Status(WireOf(x), x[2], reqs[x[1]].nodes, reqs, {x[1]})
Siblings(x) ==
    [i \in Children(WireOf(x), Kind(WireOf(x)) = "uri") |->
        Status(WireOf(x).props[i].val, x[2] \o <<i>>, reqs[x[1]].nodes, reqs, {x[1]})]

AllSettledFirst(own, sibs) ==
    /\ own.st = "resolved" => \A i \in DOMAIN sibs : sibs[i].st = "resolved"
    /\ Settled(own) => \A i \in DOMAIN sibs : Settled(sibs[i])
    /\ (\E i \in DOMAIN sibs : sibs[i].st = "rejected") => own.st = "rejected"

\* C20: the decode of a wire object is settled only when every one of its
\* property decodes is settled, it is resolved (and, for a $uri object,
\* merged) only when all of them are resolved, and it is rejected when one
\* of them is rejected, whatever the wire keys are.
C20_AllSettledDecode ==
    \A x \in Objects : AllSettledFirst(StatusAt(x), Siblings(x))

(***************************************************************************)
(* The client against a server that also sends schema documents and a     *)
(* representation that refers to the URI it was fetched from.             *)
(***************************************************************************)
SchemaName == Str(<<"x">>)

DocResponses(uri) ==
    {WObj(<<P(KeyUri, Str(prefix \o W1)), P(KeyName, Num(1))>>),
     WObj(<<P(KeySchema, SchemaName), P(KeyPeer, Ref(prefix \o W2))>>),
     WObj(<<P(KeyUri, Str(prefix \o W1)), P(KeySchema, SchemaName)>>),
     WObj(<<P(KeySelf, Ref(uri))>>)}

TransportSettles ==
    \E r \in 1..Len(reqs) :
        \/ \E payload \in DocResponses(reqs[r].uri) : TransportResolve(r, payload)
        \/ \E err \in TransportErrors : TransportReject(r, err)

Merges == \E r \in 1..Len(reqs) : \E path \in DOMAIN reqs[r].nodes : Merge(r, path)

Settles == \E r \in 1..Len(reqs) : SettleOuter(r)

NextDocs ==
    \/ /\ \E arg \in FetchArgs, cacheOpt \in BOOLEAN : Fetch(arg, cacheOpt)
       /\ UNCHANGED paging
    \/ TransportSettles /\ UNCHANGED paging
    \/ Merges /\ UNCHANGED paging
    \/ Settles /\ UNCHANGED paging

SpecDocs == Init /\ [][NextDocs]_vars

\* The response to r arrives in this step and is a schema document.
SchemaArrives(r) ==
    /\ reqs[r].t = "inflight"
    /\ reqs'[r].t = "responded"
    /\ IsString(Get(reqs'[r].payload, KeySchema))

\* C16: the decode of a wire object with a string $schema key resolves no
\* URI, makes no request() call and leaves the Identity Cache as it is,
\* also when the object carries a $uri key or nested references.
C16_SchemaOpaque ==
    [][\A r \in 1..Len(reqs) :
          SchemaArrives(r) =>
             /\ reqs'[r].nodes = EmptyMap
             /\ Len(reqs') = Len(reqs)
             /\ cache' = cache
             /\ items' = items]_vars

\* What can still happen without a further call of the application: a
\* transport call is unsettled, a merge continuation has all its property
\* decodes resolved, or a request is settled whose handlers have not run.
TransportPending == \E r \in 1..Len(reqs) : reqs[r].t = "inflight"
MergeReady ==
    \E x \in Nodes :
        /\ NodeOf(x).b = "wait"
        /\ PromiseAll(ChildStatus(WireOf(x), x[2], reqs[x[1]].nodes, reqs, {x[1]})).st
              = "resolved"
SettleReady == \E r \in 1..Len(reqs) : reqs[r].outer = Pending /\ Settled(Inner(r))

\* C17: a fetch is never left unsettled with nothing to wait for: while
\* the promise of a fetch is pending, a transport call is unsettled or a
\* continuation is ready to run, so that the fetch settles once every
\* transport call has settled and every ready continuation has run.
C17_EveryFetchSettles ==
    (\E r \in 1..Len(reqs) : ~Settled(CallerPromise(r)))
       => (TransportPending \/ MergeReady \/ SettleReady)

(***************************************************************************)
(* One fetch of an arbitrary uri argument.                                *)
(***************************************************************************)
UriChars == {"/", "a", "w"}
UriArgs == UNION {[1..n -> UriChars] : n \in 1..MaxUriLen}

FetchOnce(arg) == Len(reqs) = 0 /\ Fetch(arg, TRUE)

NextArgs == \E arg \in UriArgs : FetchOnce(arg) /\ UNCHANGED paging

SpecArgs == Init /\ [][NextArgs]_vars

\* The uri arguments without the prefix whose fetch makes request r.
ArgsOf(r) ==
    {u \in UriArgs : ~StartsAt(u, prefix, 1) /\ NormalizeURI(u) = reqs[r].uri}

\* C18: the URI of every transport call starts, after the host, with the
\* API prefix, and for every uri argument u without the prefix that leads
\* to the call, fetch(prefix + u) targets the same transport URI, which is
\* also the key of the pending GET.
C18_PrefixNormalization ==
    \A r \in 1..Len(reqs) :
        /\ reqs[r].url = Host \o reqs[r].uri
        /\ StartsAt(reqs[r].uri, prefix, 1)
        /\ \A u \in ArgsOf(r) :
              /\ NormalizeURI(prefix \o u) = reqs[r].uri
              /\ pendingGETRequests = (NormalizeURI(prefix \o u) :> r)

(***************************************************************************)
(* The outbound transform and Store.query.                                *)
(***************************************************************************)
KeyPage == <<"p", "a", "g", "e">>
KeyPerPage == <<"p", "e", "r", "P", "a", "g", "e">>
KeyCamel == <<"a", "B">>

IsUpper(c) == \E i \in 1..Len(Upper) : Upper[i] = c
ToLower(c) == Lower[CHOOSE i \in 1..Len(Upper) : Upper[i] = c]

\* utils.toSnakeCase: an upper-case letter becomes an underscore followed
\* by that letter in lower case.
RECURSIVE toSnakeCase(_)
toSnakeCase(s) ==
    IF s = <<>> THEN <<>>
    ELSE IF IsUpper(Head(s))
         THEN <<"_", ToLower(Head(s))>> \o toSnakeCase(Tail(s))
         ELSE <<Head(s)>> \o toSnakeCase(Tail(s))

\* Item.uri of instance i: the $uri the decode assigned to it, if any.
HasUri(i) == KeyUri \in DOMAIN items[i].props /\ IsString(items[i].props[KeyUri])
UriOf(i) == items[i].props[KeyUri].s

RECURSIVE toPotionJSON(_)

\* utils.omap(json, (key, value) => [toSnakeCase(key), toPotionJSON(value)]).
omap(map) ==
    Obj([sk \in {toSnakeCase(key) : key \in DOMAIN map} |->
            toPotionJSON(map[CHOOSE key \in DOMAIN map : toSnakeCase(key) = sk])])

\* Lines 250-251 and 257 for an Item instance.
\* (ItemInlined: an encoding that writes out the item's own properties.)
ItemInlined(i) == omap(items[i].props)
ItemToJSON(i) ==
    IF HasUri(i) THEN Obj((KeyRef :> Str(prefix \o UriOf(i))))
    ELSE omap(items[i].props)

\* PotionBase.toPotionJSON (lines 248-262).
toPotionJSON(json) ==
    IF json.k = "item" THEN ItemToJSON(json.id)
    ELSE IF json.k = "date" THEN Obj((KeyDate :> Num(json.ms)))
    ELSE IF json.k = "arr"
         THEN Arr([i \in 1..Len(json.elems) |-> toPotionJSON(json.elems[i])])
    ELSE IF json.k = "obj" THEN omap(json.map)
    ELSE json

\* The resource URI a Store is registered under.
Registered == CHOOSE res \in Resources : TRUE

\* Lines 116-120: the search of a fetch with {paginate, search: opts}.
SearchOf(opts, paginate) ==
    IF paginate
    THEN Obj(Assign((KeyPage :> Num(1)) @@ (KeyPerPage :> Num(25)),
                    IF opts.k = "obj" THEN opts.map ELSE EmptyMap))
    ELSE opts

\* What fetch hands to request() with the call it makes (lines 124-128),
\* and what the response's x-total-count header and the cursor passed to
\* fetch are.
Sent(search, paginate, cursor) ==
    [raw |-> search, search |-> toPotionJSON(search), paginate |-> paginate,
     cursor |-> cursor, count |-> Undefined]

\* fetch(uri, {paginate, cache: true, method: 'GET', search: opts}, cursor).
QueryCall(f, search, paginate, cursor) ==
    /\ Called(f)
    /\ queries' = IF Len(f.st.reqs) > Len(reqs)
                  THEN (Len(f.st.reqs) :> Sent(search, paginate, cursor)) @@ queries
                  ELSE queries

QueryFetch(uri, search, paginate, cursor) ==
    QueryCall(fetchSync(State, uri, "GET", TRUE, search.k # "undefined",
                        IF paginate THEN "page" ELSE "plain", <<>>),
              search, paginate, cursor)

\* Store.query(opts, {paginate}) (part_000 lines 517-530).
Query(opts, paginate) ==
    /\ QueryFetch(Registered, SearchOf(opts, paginate), paginate, 0)
    /\ UNCHANGED cursors

(***************************************************************************)
(* One query whose options hold items, dates, arrays and objects.         *)
(***************************************************************************)
Saved == [cls |-> Registered,
          props |-> (KeyUri :> Str(W1)) @@ (KeyId :> Num(1)) @@ (KeyName :> Num(1))]
Unsaved == [cls |-> Registered, props |-> (KeyCamel :> DateOf(7))]

InitEncode ==
    /\ prefix \in Prefixes
    /\ cache = (W1 :> 1)
    /\ items = <<Saved, Unsaved>>
    /\ pendingGETRequests = EmptyMap
    /\ reqs = <<>>
    /\ cursors = <<>>
    /\ queries = EmptyMap

Atoms == {Null, Num(1), Str(<<"s">>), DateOf(7), ItemRef(1), ItemRef(2)}
Wrap(vs) == vs \cup {Arr(<<v>>) : v \in vs} \cup {Obj((KeyCamel :> v)) : v \in vs}
SearchValues == Wrap(Wrap(Atoms))
QueryOptions == {Obj((KeyCamel :> v)) : v \in SearchValues}

QueryOnce(opts, paginate) == Len(reqs) = 0 /\ Query(opts, paginate)

NextEncode == \E opts \in QueryOptions, paginate \in BOOLEAN : QueryOnce(opts, paginate)

SpecEncode == InitEncode /\ [][NextEncode]_vars

\* out is what the claim asks of the encoding of in.
RECURSIVE Encodes(_, _)
Encodes(in, out) ==
    IF in.k = "item"
    THEN HasUri(in.id) => out = Obj((KeyRef :> Str(prefix \o UriOf(in.id))))
    ELSE IF in.k = "date" THEN out = Obj((KeyDate :> Num(in.ms)))
    ELSE IF in.k = "arr"
         THEN /\ out.k = "arr"
              /\ Len(out.elems) = Len(in.elems)
              /\ \A i \in 1..Len(in.elems) : Encodes(in.elems[i], out.elems[i])
    ELSE IF in.k = "obj"
         THEN /\ out.k = "obj"
              /\ \A key \in DOMAIN in.map :
                    /\ toSnakeCase(key) \in DOMAIN out.map
                    /\ Encodes(in.map[key], out.map[toSnakeCase(key)])
    ELSE out = in

\* C15: in the search a query sends, every Item with a string uri, at any
\* depth inside objects and arrays, is the single-key object
\* {$ref: prefix + uri}, every Date is {$date: milliseconds}, and every
\* scalar is unchanged.
C15_OutboundStubs ==
    \A r \in DOMAIN queries : Encodes(queries[r].raw, queries[r].search)

\* A query was sent whose options hold a saved item inside an array inside
\* an object, under a non-empty prefix.
C15_Witness ==
    \E r \in DOMAIN queries :
        /\ prefix # <<>>
        /\ queries[r].raw = Obj((KeyCamel :> Obj((KeyCamel :> Arr(<<ItemRef(1)>>)))))
        /\ LET snake == toSnakeCase(KeyCamel)
           IN  queries[r].search =
                   Obj((snake :> Obj((snake :> Arr(<<Obj((KeyRef :> Str(prefix \o W1)))>>)))))

(***************************************************************************)
(* Pagination (part_000 lines 778-858).  Next to the fields of the class, *)
(* a cursor keeps a history of its iterator for the properties: yielded   *)
(* is what next() has returned since it last returned done, last is what  *)
(* it returned last, restarted says that it has returned done once, and   *)
(* steady that update() has not run in the middle of the iteration.       *)
(***************************************************************************)
CursorRef(c) == [k |-> "cursor", id |-> c]

\* parseInt(count, 10).
ParseCount(count) == IF count.k = "str" THEN Num(ParseInt(count.s, 0)) ELSE count

\* new Pagination({uri, potion}, elems, count, options), lines 813-824.
NewPagination(uri, search, elems, count) ==
    [uri |-> uri, search |-> search.map, items |-> elems,
     page |-> search.map[KeyPage], perPage |-> search.map[KeyPerPage],
     total |-> ParseCount(count), pointer |-> 0,
     yielded |-> <<>>, last |-> "none", restarted |-> FALSE, steady |-> TRUE]

\* Pagination.update(elems, count), lines 850-853.
\* (updateAppending: an update that keeps the items of the old page.)
updateAppending(cursor, elems, count) ==
    [cursor EXCEPT !.items = @ \o elems, !.total = count,
                   !.steady = @ /\ cursor.pointer = 0]
update(cursor, elems, count) ==
    [cursor EXCEPT !.items = elems, !.total = count,
                   !.steady = @ /\ cursor.pointer = 0]

\* Lines 130-141: the last continuation of the fetch of a paginated query.
Paginate(r) ==
    /\ reqs[r].kind = "page"
    /\ reqs[r].outer = Pending
    /\ LET inner == InnerOf(r, reqs, {})
           c == queries[r].cursor
           elems == inner.v.elems
           count == IF queries[r].count.k = "undefined" THEN Num(Len(elems))
                    ELSE queries[r].count
       IN  /\ Settled(inner)
           /\ IF inner.st = "rejected"
              THEN /\ reqs' = [reqs EXCEPT ![r].outer = inner]
                   /\ UNCHANGED cursors
              ELSE IF c = 0
              THEN /\ cursors' = Append(cursors,
                                        NewPagination(reqs[r].uri, queries[r].raw, elems, count))
                   /\ reqs' = [reqs EXCEPT ![r].outer = Resolved(CursorRef(Len(cursors) + 1))]
              ELSE /\ cursors' = [cursors EXCEPT ![c] = update(@, elems, count)]
                   /\ reqs' = [reqs EXCEPT ![r].outer = Resolved(Undefined)]
    /\ UNCHANGED <<prefix, cache, items, pendingGETRequests, queries>>

\* Pagination.changePageTo(page), lines 844-848.
ChangePageTo(c, page) ==
    LET search == (KeyPage :> Num(page)) @@ cursors[c].search
    IN  /\ cursors' = [cursors EXCEPT ![c].search = search, ![c].page = Num(page)]
        /\ QueryFetch(cursors[c].uri, SearchOf(Obj(search), TRUE), TRUE, c)

\* Pagination.next(), lines 830-842.
\* (NextItemStaying: a next() that stays at the end once it is there.)
NextItemStaying(c) ==
    /\ cursors' =
          [cursors EXCEPT ![c] =
              IF @.pointer < Len(@.items)
              THEN [@ EXCEPT !.pointer = @ + 1,
                             !.yielded = Append(@, cursors[c].items[cursors[c].pointer + 1]),
                             !.last = "value"]
              ELSE [@ EXCEPT !.yielded = <<>>, !.last = "done",
                             !.restarted = TRUE, !.steady = TRUE]]
    /\ UNCHANGED <<prefix, cache, items, pendingGETRequests, reqs, queries>>
NextItem(c) ==
    /\ cursors' =
          [cursors EXCEPT ![c] =
              IF @.pointer < Len(@.items)
              THEN [@ EXCEPT !.pointer = @ + 1,
                             !.yielded = Append(@, cursors[c].items[cursors[c].pointer + 1]),
                             !.last = "value"]
              ELSE [@ EXCEPT !.pointer = 0, !.yielded = <<>>, !.last = "done",
                             !.restarted = TRUE, !.steady = TRUE]]
    /\ UNCHANGED <<prefix, cache, items, pendingGETRequests, reqs, queries>>

\* The transport resolves the request of a query; the response carries an
\* x-total-count header (count) or none.
QueryResolve(r, payload, count) ==
    /\ r \in DOMAIN queries
    /\ TransportResolve(r, payload)
    /\ queries' = [queries EXCEPT ![r].count = count]
    /\ UNCHANGED cursors

KeyQuery == <<"q">>
PageOptions == {Undefined, Obj((KeyQuery :> Num(1)))}
PageNumbers == {2, 3}
PageResponses ==
    {Arr(<<Num(1), Num(2)>>), Arr(<<Num(3)>>),
     Arr(<<WObj(<<P(KeyUri, Str(prefix \o W1))>>)>>)}
Counts == {Undefined, Str(<<"7">>)}
QueryErrors == {ErrorOf("boom", <<>>)}

NextQuery ==
    \/ /\ Len(reqs) < MaxQueries
       /\ \E opts \in PageOptions, paginate \in BOOLEAN : Query(opts, paginate)
    \/ /\ Len(reqs) < MaxQueries
       /\ \E c \in 1..Len(cursors), page \in PageNumbers : ChangePageTo(c, page)
    \/ \E c \in 1..Len(cursors) : NextItem(c)
    \/ \E r \in 1..Len(reqs), payload \in PageResponses, count \in Counts :
          QueryResolve(r, payload, count)
    \/ /\ \E r \in 1..Len(reqs), err \in QueryErrors : TransportReject(r, err)
       /\ UNCHANGED paging
    \/ /\ \E r \in 1..Len(reqs) : \E path \in DOMAIN reqs[r].nodes : Merge(r, path)
       /\ UNCHANGED paging
    \/ /\ \E r \in 1..Len(reqs) : SettleOuter(r)
       /\ UNCHANGED paging
    \/ \E r \in 1..Len(reqs) : Paginate(r)

SpecQuery == Init /\ [][NextQuery]_vars

\* C12: every Store.query call, with or without options, paginated or not,
\* makes a transport call of its own, one that is not in the table of
\* pending GETs, and leaves that table as it was.
C12_QueriesNeverShared ==
    [][\A opts \in PageOptions, paginate \in BOOLEAN :
          Query(opts, paginate) =>
             /\ Len(reqs') = Len(reqs) + 1
             /\ reqs'[Len(reqs')].kind # "dedup"
             /\ pendingGETRequests' = pendingGETRequests]_vars

\* The search that the query which created cursor c sent.
OriginalSearch(c) ==
    queries[CHOOSE r \in DOMAIN queries : reqs[r].outer = Resolved(CursorRef(c))].search

\* changePageTo(page) on cursor c makes one transport call, on the cursor's
\* URI, with the original search except for page, and no cursor.
PageRequested(c, page) ==
    /\ Len(reqs') = Len(reqs) + 1
    /\ Len(cursors') = Len(cursors)
    /\ reqs'[Len(reqs')].uri = cursors[c].uri
    /\ reqs'[Len(reqs')].method = "GET"
    /\ queries'[Len(reqs')].search = Obj((KeyPage :> Num(page)) @@ OriginalSearch(c).map)

\* The response to a page change of cursor c has been decoded to elems:
\* the cursor holds elems and the response's total, and is the same one.
PageReplaced(r, c, elems) ==
    /\ Len(cursors') = Len(cursors)
    /\ cursors'[c].items = elems
    /\ cursors'[c].total = IF queries[r].count = Undefined THEN Num(Len(elems))
                           ELSE queries[r].count
    /\ cursors'[c].uri = cursors[c].uri
    /\ \A d \in 1..Len(cursors) : d # c => cursors'[d] = cursors[d]

\* C14: changePageTo(n) makes exactly one transport call on the cursor's
\* URI whose search has page = n and the other original parameters
\* unchanged; when it succeeds the same cursor holds exactly the
\* response's items, in order, and the response's total.
C14_PageChangeInPlace ==
    [][/\ \A c \in 1..Len(cursors), page \in PageNumbers :
             ChangePageTo(c, page) => PageRequested(c, page)
       /\ \A r \in DOMAIN queries :
             (queries[r].cursor # 0 /\ Paginate(r) /\ Inner(r).st = "resolved")
                => PageReplaced(r, queries[r].cursor, Inner(r).v.elems)]_vars

\* A cursor created with two items was moved to page 2 and now holds the
\* one item and the total of the second response.
C14_Witness ==
    \E r \in DOMAIN queries :
        /\ queries[r].cursor # 0
        /\ reqs[r].outer = Resolved(Undefined)
        /\ reqs[r].payload = Arr(<<Num(3)>>)
        /\ queries[r].count = Str(<<"7">>)
        /\ queries[r].search.map[KeyPage] = Num(2)
        /\ \E q \in DOMAIN queries :
              /\ reqs[q].outer = Resolved(CursorRef(queries[r].cursor))
              /\ reqs[q].payload = Arr(<<Num(1), Num(2)>>)
        /\ cursors[queries[r].cursor].items = <<Num(3)>>
        /\ cursors[queries[r].cursor].total = Str(<<"7">>)
        /\ cursors[queries[r].cursor].page = Num(2)

\* What next() on cursor c does in this step: before the end of the page
\* it returns the item at the position and moves on by one; at the end it
\* returns done and moves back to the start.
Iterates(c) ==
    IF cursors[c].pointer < Len(cursors[c].items)
    THEN /\ cursors'[c].last = "value"
         /\ cursors'[c].yielded =
               Append(cursors[c].yielded, cursors[c].items[cursors[c].pointer + 1])
    ELSE /\ cursors'[c].last = "done"
         /\ cursors'[c].pointer = 0
         /\ cursors[c].steady => cursors[c].yielded = cursors[c].items

\* While the page is not replaced in the middle of an iteration, what the
\* iteration has yielded so far is the page up to the position.
InOrder(c) ==
    cursors[c].steady =>
        /\ cursors[c].pointer <= Len(cursors[c].items)
        /\ cursors[c].yielded = SubSeq(cursors[c].items, 1, cursors[c].pointer)

Creator(c) == CHOOSE q \in DOMAIN queries : reqs[q].outer = Resolved(CursorRef(c))
PageChanges(c) == {r \in DOMAIN queries : queries[r].cursor = c}

\* The total a cursor takes from the response to request r.
TotalOf(r, elems) ==
    IF queries[r].count = Undefined THEN Num(Len(elems)) ELSE queries[r].count

\* C26: when the one page change made on a cursor has been rejected, the
\* cursor's page, items and total are those it was created with.
C26_FailedPageChangeKeepsCursor ==
    \A c \in 1..Len(cursors) :
        \A r \in PageChanges(c) :
            (PageChanges(c) = {r} /\ reqs[r].outer.st = "rejected")
               => /\ cursors[c].items = Inner(Creator(c)).v.elems
                  /\ cursors[c].total = ParseCount(TotalOf(Creator(c), cursors[c].items))
                  /\ cursors[c].page = queries[Creator(c)].raw.map[KeyPage]

\* C27: the position of a cursor is between 0 and length.
C27_PositionInRange ==
    \A c \in 1..Len(cursors) :
        cursors[c].pointer >= 0 /\ cursors[c].pointer <= Len(cursors[c].items)

(***************************************************************************)
(* One paginated query and the page changes made on its cursor.           *)
(***************************************************************************)
PlainPages == {Arr(<<Num(1), Num(2)>>), Arr(<<Num(3)>>)}

NextPages ==
    \/ Len(reqs) = 0 /\ Query(Undefined, TRUE)
    \/ \E c \in 1..Len(cursors), page \in PageNumbers : ChangePageTo(c, page)
    \/ \E r \in 1..Len(reqs), payload \in PlainPages, count \in Counts :
          QueryResolve(r, payload, count)
    \/ /\ \E r \in 1..Len(reqs), err \in QueryErrors : TransportReject(r, err)
       /\ UNCHANGED paging
    \/ \E r \in 1..Len(reqs) : Paginate(r)

SpecPages == Init /\ [][NextPages]_vars

\* Cursor c holds the items and the total of the response to request r,
\* which asked for the page that the cursor reports.
HoldsPageOf(c, r) ==
    /\ queries[r].raw.map[KeyPage] = cursors[c].page
    /\ cursors[c].items = Inner(r).v.elems
    /\ cursors[c].total = TotalOf(r, Inner(r).v.elems)

\* C24: once all the page changes made on a cursor have succeeded, in
\* whatever order their responses arrived, the cursor holds the items and
\* the total of a response for the page number that page reports.
C24_OverlappingPageChanges ==
    \A c \in 1..Len(cursors) :
        (/\ PageChanges(c) # {}
         /\ \A r \in PageChanges(c) : reqs[r].outer.st = "resolved")
           => \E r \in PageChanges(c) : HoldsPageOf(c, r)

\* Every fetch made so far has settled for its caller.
AllSettled == \A r \in 1..Len(reqs) : Settled(CallerPromise(r))

\* No GET was issued after the destroy d was called.
NoLaterGet(d) == \A r \in 1..Len(reqs) : r > d => reqs[r].method # "GET"

\* C25: when a Store.destroy has succeeded, no GET was issued after it was
\* called, and every GET that was in flight at the time has settled, the
\* cache holds no entry for the destroyed item's URI.
C25_DestroyNotUndone ==
    \A d \in 1..Len(reqs) :
        (/\ reqs[d].kind = "destroy"
         /\ reqs[d].outer.st = "resolved"
         /\ NoLaterGet(d)
         /\ AllSettled)
           => reqs[d].target \notin DOMAIN cache

\* The property decodes of the resource object at node x, taken together.
PropertiesOf(x) ==
    PromiseAll(ChildStatus(WireOf(x), x[2], reqs[x[1]].nodes, reqs, {x[1]}))

\* The decodes of resource objects named uri that can still be merged.
Mergeable(uri) ==
    {x \in Nodes : /\ NodeOf(x).b = "wait"
                   /\ NodeOf(x).uri = uri
                   /\ PropertiesOf(x).st # "rejected"}

\* C23: when the decode of a $uri object has failed because one of its
\* properties was rejected, the cache does not keep the unpopulated
\* instance the decode put there: every unpopulated instance in the cache
\* belongs to a decode that can still be merged.
C23_FailedDecodeLeavesCacheClean ==
    \A uri \in DOMAIN cache :
        items[cache[uri]].props = EmptyMap => Mergeable(uri) # {}

(***************************************************************************)
(* One fetch answered with a resource object of an arbitrary $uri.        *)
(***************************************************************************)
WireChars == {"/", "a", "w", "1"}
WireUris ==
    UNION {[1..n -> WireChars] : n \in 1..MaxWireLen}
       \cup {<<"%", "2", "F", "w", "%", "2", "F", "1">>, <<"%", "w", "/", "1">>}

Resource(u) == WObj(<<P(KeyUri, Str(u)), P(KeyName, Num(1))>>)

NextDecode ==
    \/ Len(reqs) = 0 /\ Fetch(W1, TRUE) /\ UNCHANGED paging
    \/ /\ \E r \in 1..Len(reqs), u \in WireUris : TransportResolve(r, Resource(u))
       /\ UNCHANGED paging
    \/ /\ \E r \in 1..Len(reqs) : \E path \in DOMAIN reqs[r].nodes : Merge(r, path)
       /\ UNCHANGED paging
    \/ /\ \E r \in 1..Len(reqs) : SettleOuter(r)
       /\ UNCHANGED paging

SpecDecode == Init /\ [][NextDecode]_vars

\* The decoded $uri strings of the resource objects received so far.
Received ==
    {DecodeURIComponent(Get(WireOf(x), KeyUri).s).uri :
        x \in {y \in Nodes : NodeOf(y).b \in {"wait", "done"}}}

\* key is u without the API prefix.
Stripped(key, u) ==
    \/ u = prefix \o key
    \/ u = key /\ ~StartsAt(u, prefix, 1)

\* C22: every key of the Identity Cache is the $uri of a received resource
\* object without the API prefix, and starts with a registered resource
\* URI followed by '/'.
C22_CacheKeys ==
    \A key \in DOMAIN cache :
        /\ \E res \in Resources : StartsAt(key, res \o <<"/">>, 1)
        /\ \E u \in Received : Stripped(key, u)

\* Under a non-empty prefix, the cache holds a merged instance under the
\* local URI of a resource object that was sent with the prefix.
C22_Witness ==
    /\ prefix # <<>>
    /\ W1 \in DOMAIN cache
    /\ prefix \o W1 \in Received
    /\ items[cache[W1]].props # EmptyMap

(***************************************************************************)
(* One unpaginated query answered with an array of resource objects,      *)
(* reference stubs and scalars.                                           *)
(***************************************************************************)
ArrayResponses ==
    {Arr(<<Resource(prefix \o W1), Resource(prefix \o W2)>>),
     Arr(<<Ref(prefix \o W2), Resource(prefix \o W1), Num(5)>>),
     Arr(<<Ref(prefix \o W2), Ref(prefix \o W1)>>)}

NextArray ==
    \/ Len(reqs) = 0 /\ \E opts \in PageOptions : Query(opts, FALSE)
    \/ \E r \in 1..Len(reqs), payload \in ArrayResponses :
          QueryResolve(r, payload, Undefined)
    \/ /\ \E r \in (1..Len(reqs)) \ DOMAIN queries :
             TransportResolve(r, Resource(reqs[r].uri))
       /\ UNCHANGED paging
    \/ /\ \E r \in 1..Len(reqs), err \in QueryErrors : TransportReject(r, err)
       /\ UNCHANGED paging
    \/ /\ \E r \in 1..Len(reqs) : \E path \in DOMAIN reqs[r].nodes : Merge(r, path)
       /\ UNCHANGED paging
    \/ /\ \E r \in 1..Len(reqs) : SettleOuter(r)
       /\ UNCHANGED paging

SpecArray == Init /\ [][NextArray]_vars

\* val is the decode of the wire element w: the instance of the resource
\* that w names, or w itself when w is a scalar.
DecodeOf(w, val) ==
    IF Kind(w) \in {"uri", "ref"}
    THEN val.k = "item" /\ HasUri(val.id) /\ UriOf(val.id) = TargetOf(w).uri
    ELSE val = w

\* C21: the array a query resolves with has, at each index, the decode of
\* the wire element at that index, in whatever order the element decodes
\* and the reference fetches completed.
C21_ArrayKeepsOrder ==
    \A r \in DOMAIN queries :
        CallerPromise(r).st = "resolved"
           => /\ CallerPromise(r).v.k = "arr"
              /\ Len(CallerPromise(r).v.elems) = Len(reqs[r].payload.elems)
              /\ \A i \in 1..Len(reqs[r].payload.elems) :
                    DecodeOf(reqs[r].payload.elems[i], CallerPromise(r).v.elems[i])

\* A query resolved with two references whose fetches were answered in
\* the reverse of the array's order.
C21_Witness ==
    \E r \in DOMAIN queries :
        /\ CallerPromise(r).st = "resolved"
        /\ reqs[r].payload = Arr(<<Ref(prefix \o W2), Ref(prefix \o W1)>>)
        /\ Len(items) = 2
        /\ UriOf(1) = W1
        /\ CallerPromise(r).v.elems = <<ItemRef(2), ItemRef(1)>>

(***************************************************************************)
(* The server sends back the outbound encoding of a cached item.          *)
(***************************************************************************)
RECURSIVE Serialize(_)
RECURSIVE PropsOf(_, _)
PropsOf(map, keys) ==
    IF keys = {} THEN <<>>
    ELSE LET key == CHOOSE k \in keys : TRUE
         IN  <<P(key, Serialize(map[key]))>> \o PropsOf(map, keys \ {key})

\* An outbound value as it travels: objects become wire objects.
Serialize(json) ==
    IF json.k = "obj" THEN WObj(PropsOf(json.map, DOMAIN json.map))
    ELSE IF json.k = "arr"
         THEN Arr([i \in 1..Len(json.elems) |-> Serialize(json.elems[i])])
    ELSE json

\* Instance i is held in the cache under its uri.
Held(i) == HasUri(i) /\ UriOf(i) \in DOMAIN cache /\ cache[UriOf(i)] = i

\* Request r is answered with toPotionJSON(item i), which the client
\* decodes with fromPotionJSON.
Echo(r, i) ==
    /\ Held(i)
    /\ TransportResolve(r, Serialize(toPotionJSON(ItemRef(i))))

NextEcho ==
    \/ /\ \E arg \in FetchArgs, cacheOpt \in BOOLEAN : Fetch(arg, cacheOpt)
       /\ UNCHANGED paging
    \/ /\ \E r \in 1..Len(reqs) : TransportResolve(r, Resource(prefix \o W1))
       /\ UNCHANGED paging
    \/ /\ \E r \in 1..Len(reqs), i \in 1..Len(items) : Echo(r, i)
       /\ UNCHANGED paging
    \/ /\ \E r \in 1..Len(reqs) : \E path \in DOMAIN reqs[r].nodes : Merge(r, path)
       /\ UNCHANGED paging
    \/ /\ \E r \in 1..Len(reqs) : SettleOuter(r)
       /\ UNCHANGED paging

SpecEcho == Init /\ [][NextEcho]_vars

====
